---- MODULE Spec2Model ----
(***************************************************************************)
(* Model of scripts/mtm_device.py: the MTM haptic-device adapter.          *)
(*                                                                         *)
(* Vectors are integer triples, rotations are 3x3 integer matrices (rows), *)
(* frames are a rotation and a translation, composed and inverted as KDL   *)
(* does.  Time is the rospy clock in ticks of 0.25 s.                       *)
(***************************************************************************)
EXTENDS Integers, Sequences, FiniteSets, TLC

VARIABLES
    _active,                \* MTM._active
    _scale,                 \* MTM._scale
    pose,                   \* MTM.pose (calibrated frame)
    twist,                  \* MTM.twist (calibrated twist)
    _T_baseoffset,          \* MTM._T_baseoffset
    _T_baseoffset_inverse,  \* MTM._T_baseoffset_inverse
    _T_tipoffset,           \* MTM._T_tipoffset
    clutch_button_pressed,  \* MTM.clutch_button_pressed
    coag_button_pressed,    \* MTM.coag_button_pressed
    gripper_angle,          \* MTM.gripper_angle, in units of 1/10000
    switch_slave,           \* MTM.switch_slave
    _button_msg_time,       \* MTM._button_msg_time, in ticks
    cur_pos_msg,            \* MTM.cur_pos_msg
    pre_coag_pose_msg,      \* MTM.pre_coag_pose_msg
    published,              \* the last message handed to _pos_pub / _wrench_pub
    now,                    \* rospy.Time.now(), in ticks
    pc,                     \* position of each thread inside its callback
    loc,                    \* the local variables of each running callback
    h_presses,              \* history: number of press events handled (capped at 2)
    h_lastPress,            \* history: the two clock readings of the last press
    h_prevEv,               \* history: the last button event handled
    h_firstPose             \* history: the first pose message handled

vars == << _active, _scale, pose, twist, _T_baseoffset, _T_baseoffset_inverse,
           _T_tipoffset, clutch_button_pressed, coag_button_pressed,
           gripper_angle, switch_slave, _button_msg_time, cur_pos_msg,
           pre_coag_pose_msg, published, now, pc, loc,
           h_presses, h_lastPress, h_prevEv, h_firstPose >>

\* The fields of the device record (everything but outputs, clock and history).
stored == << _active, _scale, pose, twist, _T_baseoffset, _T_baseoffset_inverse,
             _T_tipoffset, clutch_button_pressed, coag_button_pressed,
             gripper_angle, switch_slave, _button_msg_time, cur_pos_msg,
             pre_coag_pose_msg >>

hist == << h_presses, h_lastPress, h_prevEv, h_firstPose >>

\* The history of the button events alone.
buttonHist == << h_presses, h_lastPress, h_prevEv >>

-----------------------------------------------------------------------------
(* Bounds *)

\* Largest clock value.
MaxTime == 5

\* Largest number of ticks between the two clock reads of one button callback.
MaxSkew == 1

\* rospy.Duration(0.5) in ticks of 0.25 s.
_switch_slave_duration == 2

-----------------------------------------------------------------------------
(* PyKDL vectors, rotations, frames, twists and wrenches *)

None == [type |-> "None"]

Vector(x, y, z) == << x, y, z >>

VecAdd(a, b) == << a[1] + b[1], a[2] + b[2], a[3] + b[3] >>

VecScale(a, s) == << a[1] * s, a[2] * s, a[3] * s >>

VecNeg(a) == << -a[1], -a[2], -a[3] >>

Dot(a, b) == a[1] * b[1] + a[2] * b[2] + a[3] * b[3]

\* PyKDL: Vector * Vector is the cross product.
Cross(a, b) == << a[2] * b[3] - a[3] * b[2],
                  a[3] * b[1] - a[1] * b[3],
                  a[1] * b[2] - a[2] * b[1] >>

MatVec(m, v) == << Dot(m[1], v), Dot(m[2], v), Dot(m[3], v) >>

Col(m, j) == << m[1][j], m[2][j], m[3][j] >>

MatMul(a, b) == [i \in 1..3 |-> [j \in 1..3 |-> Dot(a[i], Col(b, j))]]

\* Rotation.Inverse(): the transpose.
RotInverse(m) == << Col(m, 1), Col(m, 2), Col(m, 3) >>

RotIdentity == << <<1, 0, 0>>, <<0, 1, 0>>, <<0, 0, 1>> >>

\* Rotation.RPY(pi/2, 0, 0)
RotX90 == << <<1, 0, 0>>, <<0, 0, -1>>, <<0, 1, 0>> >>

\* Rotation.RPY(0, 0, pi/2)
RotZ90 == << <<0, -1, 0>>, <<1, 0, 0>>, <<0, 0, 1>> >>

Frame(m, p) == [type |-> "Frame", M |-> m, p |-> p]

FrameIdentity == Frame(RotIdentity, Vector(0, 0, 0))

\* Frame * Frame
FrameMul(f, g) == Frame(MatMul(f.M, g.M), VecAdd(MatVec(f.M, g.p), f.p))

\* Frame.Inverse()
FrameInverse(f) == Frame(RotInverse(f.M), VecNeg(MatVec(RotInverse(f.M), f.p)))

Twist(vel, rot) == [type |-> "Twist", vel |-> vel, rot |-> rot]

\* Frame * Twist
FrameMulTwist(f, t) ==
    LET r == MatVec(f.M, t.rot)
    IN  Twist(VecAdd(MatVec(f.M, t.vel), Cross(f.p, r)), r)

Wrench(force, torque) == [type |-> "Wrench", force |-> force, torque |-> torque]

\* Frame * Wrench
FrameMulWrench(f, w) ==
    LET fo == MatVec(f.M, w.force)
    IN  Wrench(fo, VecAdd(MatVec(f.M, w.torque), Cross(f.p, fo)))

\* Rotation.Quaternion(x, y, z, w)
RotationQuaternion(x, y, z, w) ==
    LET x2 == x * x
        y2 == y * y
        z2 == z * z
        w2 == w * w
    IN  << << w2 + x2 - y2 - z2, 2 * x * y - 2 * w * z, 2 * x * z + 2 * w * y >>,
           << 2 * x * y + 2 * w * z, w2 - x2 + y2 - z2, 2 * y * z - 2 * w * x >>,
           << 2 * x * z - 2 * w * y, 2 * y * z + 2 * w * x, w2 - x2 - y2 + z2 >> >>

\* Integer square root (exact on the squares the model's rotations produce).
Isqrt(n) == CHOOSE r \in 0..n : r * r <= n /\ (r + 1) * (r + 1) > n

\* Rotation.GetQuaternion(), as << x, y, z, w >>.  Exact for the rotations by
\* multiples of pi about the axes, the only ones whose quaternion is integral.
GetQuaternion(m) ==
    LET trace == m[1][1] + m[2][2] + m[3][3]
    IN  IF trace > 0
        THEN LET r == Isqrt(trace + 1)
             IN  << (m[3][2] - m[2][3]) \div (2 * r),
                    (m[1][3] - m[3][1]) \div (2 * r),
                    (m[2][1] - m[1][2]) \div (2 * r),
                    r \div 2 >>
        ELSE IF m[1][1] > m[2][2] /\ m[1][1] > m[3][3]
        THEN LET s == 2 * Isqrt(1 + m[1][1] - m[2][2] - m[3][3])
             IN  << s \div 4,
                    (m[1][2] + m[2][1]) \div s,
                    (m[1][3] + m[3][1]) \div s,
                    (m[3][2] - m[2][3]) \div s >>
        ELSE IF m[2][2] > m[3][3]
        THEN LET s == 2 * Isqrt(1 + m[2][2] - m[1][1] - m[3][3])
             IN  << (m[1][2] + m[2][1]) \div s,
                    s \div 4,
                    (m[2][3] + m[3][2]) \div s,
                    (m[1][3] - m[3][1]) \div s >>
        ELSE LET s == 2 * Isqrt(1 + m[3][3] - m[1][1] - m[2][2])
             IN  << (m[1][3] + m[3][1]) \div s,
                    (m[2][3] + m[3][2]) \div s,
                    s \div 4,
                    (m[2][1] - m[1][2]) \div s >>

-----------------------------------------------------------------------------
(* ROS messages and the conversion utilities *)

Pose(position, orientation) ==
    [type |-> "Pose", position |-> position, orientation |-> orientation]

PoseStamped(p) == [type |-> "PoseStamped", pose |-> p]

kdl_frame_to_pose_msg(kdl_pose) ==
    PoseStamped(Pose(Vector(kdl_pose.p[1], kdl_pose.p[2], kdl_pose.p[3]),
                     GetQuaternion(kdl_pose.M)))

kdl_wrench_to_wrench_msg(kdl_wrench) ==
    [type |-> "WrenchStamped",
     wrench |-> [type |-> "WrenchMsg",
                 force |-> Vector(kdl_wrench.force[1], kdl_wrench.force[2],
                                  kdl_wrench.force[3]),
                 torque |-> Vector(kdl_wrench.torque[1], kdl_wrench.torque[2],
                                   kdl_wrench.torque[3])]]

pose_msg_to_kdl_frame(msg_pose) ==
    LET p == msg_pose.pose
    IN  Frame(RotationQuaternion(p.orientation[1], p.orientation[2],
                                 p.orientation[3], p.orientation[4]),
              Vector(p.position[1], p.position[2], p.position[3]))

-----------------------------------------------------------------------------
(* Threads: rospy runs each subscriber's callback on that subscription's own
   thread; the configuration setters and the commands run on the caller's. *)

Threads == {"main", "pose", "clutch", "coag"}

Idle == [t \in Threads |-> "idle"]

NoLocals == [t \in Threads |-> None]

-----------------------------------------------------------------------------
(* MTM.__init__ *)

Init ==
    /\ _active = FALSE
    /\ _scale = 1
    /\ pose = Frame(RotIdentity, Vector(0, 0, 0))
    /\ twist = Twist(Vector(0, 0, 0), Vector(0, 0, 0))
    /\ _T_baseoffset = Frame(RotIdentity, Vector(0, 0, 0))
    /\ _T_baseoffset_inverse = FrameInverse(Frame(RotIdentity, Vector(0, 0, 0)))
    /\ _T_tipoffset = Frame(RotIdentity, Vector(0, 0, 0))
    /\ clutch_button_pressed = FALSE
    /\ coag_button_pressed = FALSE
    /\ gripper_angle = 0
    /\ switch_slave = FALSE
    /\ now = 0
    /\ _button_msg_time = 0
    /\ cur_pos_msg = None
    /\ pre_coag_pose_msg = None
    /\ published = None
    /\ pc = Idle
    /\ loc = NoLocals
    /\ h_presses = 0
    /\ h_lastPress = None
    /\ h_prevEv = None
    /\ h_firstPose = None

-----------------------------------------------------------------------------
(* The operations of MTM, each as one whole call *)

set_base_frame(frame) ==
    /\ UNCHANGED << _active, _scale, pose, twist, _T_tipoffset,
                    clutch_button_pressed, coag_button_pressed, gripper_angle,
                    switch_slave, _button_msg_time, cur_pos_msg,
                    pre_coag_pose_msg, published, now, pc, loc, hist >>
    /\ _T_baseoffset' = frame
    /\ _T_baseoffset_inverse' = FrameInverse(frame)

set_tip_frame(frame) ==
    /\ _T_tipoffset' = frame
    /\ UNCHANGED << _active, _scale, pose, twist, _T_baseoffset,
                    _T_baseoffset_inverse, clutch_button_pressed,
                    coag_button_pressed, gripper_angle, switch_slave,
                    _button_msg_time, cur_pos_msg, pre_coag_pose_msg,
                    published, now, pc, loc, hist >>

\* set_scale rescaling the stored pose to the new scale.
set_scale_rescales_pose(scale) ==
    /\ _scale' = scale
    /\ pose' = Frame(pose.M, VecScale(pose.p, scale))
    /\ UNCHANGED << _active, twist, _T_baseoffset, _T_baseoffset_inverse,
                    _T_tipoffset, clutch_button_pressed, coag_button_pressed,
                    gripper_angle, switch_slave, _button_msg_time, cur_pos_msg,
                    pre_coag_pose_msg, published, now, pc, loc, hist >>

set_scale(scale) ==
    /\ _scale' = scale
    /\ UNCHANGED << _active, pose, twist, _T_baseoffset, _T_baseoffset_inverse,
                    _T_tipoffset, clutch_button_pressed, coag_button_pressed,
                    gripper_angle, switch_slave, _button_msg_time, cur_pos_msg,
                    pre_coag_pose_msg, published, now, pc, loc, hist >>

\* CorrectedPose with the scale applied to the corrected frame instead of the
\* raw one.
CorrectedPose_scale_result(msg, scale, baseinv, tip) ==
    LET cur_frame == pose_msg_to_kdl_frame(msg)
        f == FrameMul(FrameMul(baseinv, cur_frame), tip)
    IN  Frame(f.M, VecScale(f.p, scale))

\* Lines 118-120: the calibrated frame of a raw pose message, given the
\* scale, the cached inverse base offset and the tip offset that were read.
CorrectedPose(msg, scale, baseinv, tip) ==
    LET cur_frame == pose_msg_to_kdl_frame(msg)
        scaled == Frame(cur_frame.M, VecScale(cur_frame.p, scale))
    IN  FrameMul(FrameMul(baseinv, scaled), tip)

\* pose_cb without line 122.
pose_cb_no_active(msg) ==
    /\ UNCHANGED << _active, _scale, twist, _T_baseoffset,
                    _T_baseoffset_inverse, _T_tipoffset, clutch_button_pressed,
                    coag_button_pressed, gripper_angle, switch_slave,
                    _button_msg_time, published, now, pc, loc, buttonHist >>
    /\ cur_pos_msg' = msg
    /\ pre_coag_pose_msg' =
           IF pre_coag_pose_msg = None THEN msg ELSE pre_coag_pose_msg
    /\ pose' = CorrectedPose(msg, _scale, _T_baseoffset_inverse, _T_tipoffset)
    /\ h_firstPose' =
           IF h_firstPose = None
           THEN [type |-> "First", msg |-> msg,
                 coag_before |-> coag_button_pressed]
           ELSE h_firstPose

\* pose_cb without lines 116-117.
pose_cb_no_bootstrap(msg) ==
    /\ UNCHANGED << _scale, twist, _T_baseoffset, _T_baseoffset_inverse,
                    _T_tipoffset, clutch_button_pressed, coag_button_pressed,
                    gripper_angle, switch_slave, _button_msg_time,
                    pre_coag_pose_msg, published, now, pc, loc, buttonHist >>
    /\ cur_pos_msg' = msg
    /\ pose' = CorrectedPose(msg, _scale, _T_baseoffset_inverse, _T_tipoffset)
    /\ _active' = TRUE
    /\ h_firstPose' =
           IF h_firstPose = None
           THEN [type |-> "First", msg |-> msg,
                 coag_before |-> coag_button_pressed]
           ELSE h_firstPose

\* pose_cb without the test of line 116: every pose message is snapshotted.
pose_cb_always_snapshot(msg) ==
    /\ UNCHANGED << _scale, twist, _T_baseoffset, _T_baseoffset_inverse,
                    _T_tipoffset, clutch_button_pressed, coag_button_pressed,
                    gripper_angle, switch_slave, _button_msg_time, published,
                    now, pc, loc, buttonHist >>
    /\ cur_pos_msg' = msg
    /\ pre_coag_pose_msg' = msg
    /\ pose' = CorrectedPose(msg, _scale, _T_baseoffset_inverse, _T_tipoffset)
    /\ _active' = TRUE
    /\ h_firstPose' =
           IF h_firstPose = None
           THEN [type |-> "First", msg |-> msg,
                 coag_before |-> coag_button_pressed]
           ELSE h_firstPose

pose_cb(msg) ==
    /\ UNCHANGED << _scale, twist, _T_baseoffset, _T_baseoffset_inverse,
                    _T_tipoffset, clutch_button_pressed, coag_button_pressed,
                    gripper_angle, switch_slave, _button_msg_time, published,
                    now, pc, loc, buttonHist >>
    /\ cur_pos_msg' = msg
    /\ pre_coag_pose_msg' =
           IF pre_coag_pose_msg = None THEN msg ELSE pre_coag_pose_msg
    /\ pose' = CorrectedPose(msg, _scale, _T_baseoffset_inverse, _T_tipoffset)
    /\ _active' = TRUE
    /\ h_firstPose' =
           IF h_firstPose = None
           THEN [type |-> "First", msg |-> msg,
                 coag_before |-> coag_button_pressed]
           ELSE h_firstPose

is_active == _active

\* Line 131, in units of 1/10000: min = -1.8, max = 1.4.
GripperAngle(position) ==
    LET min == -18000
        max == 14000
    IN  position + (min * 10000) \div (max - min)

gripper_cb(position) ==
    /\ gripper_angle' = GripperAngle(position)
    /\ UNCHANGED << _active, _scale, pose, twist, _T_baseoffset,
                    _T_baseoffset_inverse, _T_tipoffset, clutch_button_pressed,
                    coag_button_pressed, switch_slave, _button_msg_time,
                    cur_pos_msg, pre_coag_pose_msg, published, now, pc, loc,
                    hist >>

\* twist_cb multiplying the linear velocity by the scale.
twist_cb_scaled(msg) ==
    /\ UNCHANGED << _active, _scale, pose, _T_baseoffset, _T_baseoffset_inverse,
                    _T_tipoffset, clutch_button_pressed, coag_button_pressed,
                    gripper_angle, switch_slave, _button_msg_time, cur_pos_msg,
                    pre_coag_pose_msg, published, now, pc, loc, hist >>
    /\ twist' = FrameMulTwist(_T_baseoffset_inverse,
                              Twist(VecScale(Vector(msg[1][1], msg[1][2],
                                                    msg[1][3]), _scale),
                                    Vector(msg[2][1], msg[2][2], msg[2][3])))

\* msg: the TwistStamped message's twist, as << linear, angular >>.
twist_cb(msg) ==
    /\ UNCHANGED << _active, _scale, pose, _T_baseoffset, _T_baseoffset_inverse,
                    _T_tipoffset, clutch_button_pressed, coag_button_pressed,
                    gripper_angle, switch_slave, _button_msg_time, cur_pos_msg,
                    pre_coag_pose_msg, published, now, pc, loc, hist >>
    /\ twist' = FrameMulTwist(_T_baseoffset_inverse,
                              Twist(Vector(msg[1][1], msg[1][2], msg[1][3]),
                                    Vector(msg[2][1], msg[2][2], msg[2][3])))

\* WithinWindow with <= for <.
WithinWindow_inclusive(t, last) == t - last <= _switch_slave_duration

\* Lines 150-151 / 160-161: the elapsed-time test, on the clock value read.
WithinWindow(t, last) == t - last < _switch_slave_duration

\* The history kept of a message of button btn handled at clock reading t;
\* a press read the clock again at clock reading t2.
Record(btn, pressed, t, t2) ==
    /\ h_prevEv' = [type |-> "Event", btn |-> btn, pressed |-> pressed, t |-> t]
    /\ h_presses' = IF pressed /\ h_presses < 2 THEN h_presses + 1 ELSE h_presses
    /\ h_lastPress' = IF pressed
                      THEN [type |-> "Press", compared |-> t, stored |-> t2]
                      ELSE h_lastPress
    /\ UNCHANGED h_firstPose

\* ButtonTiming assigning the outcome of the test to switch_slave.
ButtonTiming_recompute(pressed, skew) ==
    /\ switch_slave' =
           IF pressed THEN WithinWindow(now, _button_msg_time) ELSE switch_slave
    /\ now' = IF pressed THEN now + skew ELSE now
    /\ _button_msg_time' = IF pressed THEN now + skew ELSE _button_msg_time

\* ButtonTiming storing the time on a release as well.
ButtonTiming_stamp_release(pressed, skew) ==
    /\ switch_slave' =
           IF pressed /\ WithinWindow(now, _button_msg_time)
           THEN TRUE ELSE switch_slave
    /\ now' = IF pressed THEN now + skew ELSE now
    /\ _button_msg_time' = IF pressed THEN now + skew ELSE now

\* Lines 149-154 / 159-164: the shared double-press logic.  The clock is read
\* at line 150 (now) and again at line 154, skew ticks later.
ButtonTiming(pressed, skew) ==
    /\ switch_slave' =
           IF pressed /\ WithinWindow(now, _button_msg_time)
           THEN TRUE ELSE switch_slave
    /\ now' = IF pressed THEN now + skew ELSE now
    /\ _button_msg_time' = IF pressed THEN now + skew ELSE _button_msg_time

\* clutch_buttons_cb without line 154: a clutch press leaves the stored time.
clutch_buttons_cb_no_stamp(pressed, skew) ==
    /\ clutch_button_pressed' = pressed
    /\ switch_slave' =
           IF pressed /\ WithinWindow(now, _button_msg_time)
           THEN TRUE ELSE switch_slave
    /\ now' = IF pressed THEN now + skew ELSE now
    /\ Record("clutch", pressed, now, now + skew)
    /\ UNCHANGED << _active, _scale, pose, twist, _T_baseoffset,
                    _T_baseoffset_inverse, _T_tipoffset, coag_button_pressed,
                    gripper_angle, _button_msg_time, cur_pos_msg,
                    pre_coag_pose_msg, published, pc, loc >>

\* clutch_buttons_cb keeping the flag once a press has set it.
clutch_buttons_cb_sticky(pressed, skew) ==
    /\ clutch_button_pressed' = (clutch_button_pressed \/ pressed)
    /\ ButtonTiming(pressed, skew)
    /\ Record("clutch", pressed, now, now + skew)
    /\ UNCHANGED << _active, _scale, pose, twist, _T_baseoffset,
                    _T_baseoffset_inverse, _T_tipoffset, coag_button_pressed,
                    gripper_angle, cur_pos_msg, pre_coag_pose_msg, published,
                    pc, loc >>

clutch_buttons_cb(pressed, skew) ==
    /\ clutch_button_pressed' = pressed
    /\ ButtonTiming(pressed, skew)
    /\ Record("clutch", pressed, now, now + skew)
    /\ UNCHANGED << _active, _scale, pose, twist, _T_baseoffset,
                    _T_baseoffset_inverse, _T_tipoffset, coag_button_pressed,
                    gripper_angle, cur_pos_msg, pre_coag_pose_msg, published,
                    pc, loc >>

\* coag_buttons_cb with line 158 moved under the test of line 159.
coag_buttons_cb_on_press(pressed, skew) ==
    /\ coag_button_pressed' = pressed
    /\ pre_coag_pose_msg' = IF pressed THEN cur_pos_msg ELSE pre_coag_pose_msg
    /\ ButtonTiming(pressed, skew)
    /\ Record("coag", pressed, now, now + skew)
    /\ UNCHANGED << _active, _scale, pose, twist, _T_baseoffset,
                    _T_baseoffset_inverse, _T_tipoffset, clutch_button_pressed,
                    gripper_angle, cur_pos_msg, published, pc, loc >>

coag_buttons_cb(pressed, skew) ==
    /\ coag_button_pressed' = pressed
    /\ pre_coag_pose_msg' = cur_pos_msg
    /\ ButtonTiming(pressed, skew)
    /\ Record("coag", pressed, now, now + skew)
    /\ UNCHANGED << _active, _scale, pose, twist, _T_baseoffset,
                    _T_baseoffset_inverse, _T_tipoffset, clutch_button_pressed,
                    gripper_angle, cur_pos_msg, published, pc, loc >>

\* Lines 170-175: the message move_cp publishes for its argument.
PoseMsgOf(p) ==
    IF p.type = "Frame" THEN kdl_frame_to_pose_msg(p).pose
    ELSE IF p.type = "PoseStamped" THEN p.pose
    ELSE p

move_cp(p) ==
    /\ UNCHANGED << stored, now, pc, loc, hist >>
    /\ published' = [type |-> "Published", topic |-> "set_position_cartesian",
                     msg |-> PoseMsgOf(p)]

\* move_cf applying the base offset instead of its inverse.
move_cf_no_inverse(wrench) ==
    /\ UNCHANGED << stored, now, pc, loc, hist >>
    /\ published' =
           [type |-> "Published", topic |-> "set_wrench_body",
            msg |-> kdl_wrench_to_wrench_msg(
                        FrameMulWrench(_T_baseoffset, wrench)).wrench]

move_cf(wrench) ==
    /\ UNCHANGED << stored, now, pc, loc, hist >>
    /\ published' =
           [type |-> "Published", topic |-> "set_wrench_body",
            msg |-> kdl_wrench_to_wrench_msg(
                        FrameMulWrench(_T_baseoffset_inverse, wrench)).wrench]

\* One iteration of the loop of test(), lines 202-209.
test_loop ==
    IF coag_button_pressed
    THEN move_cf(Wrench(Vector(0, 0, 0), Vector(0, 0, 0)))
    ELSE /\ is_active
         /\ move_cp(pre_coag_pose_msg)

\* The rospy clock advances.
Tick(tmax) ==
    /\ now < tmax
    /\ now' = now + 1
    /\ UNCHANGED << stored, published, pc, loc, hist >>

-----------------------------------------------------------------------------
(* Inputs *)

\* Frame(Rotation.RPY(pi/2, 0, 0), Vector(0, 1, 0)): a base offset.
FrameB == Frame(RotX90, Vector(0, 1, 0))

\* A tip offset.
FrameT == Frame(RotZ90, Vector(1, 0, 0))

\* Raw pose messages: position (1,0,0) unrotated; position (0,2,1) turned by
\* pi about x.
PoseMsg1 == PoseStamped(Pose(Vector(1, 0, 0), << 0, 0, 0, 1 >>))

PoseMsg2 == PoseStamped(Pose(Vector(0, 2, 1), << 1, 0, 0, 0 >>))

TwistMsg1 == << Vector(1, 0, 0), Vector(0, 0, 1) >>

Wrench1 == Wrench(Vector(0, 1, 0), Vector(1, 0, 0))

PoseMsgs == {PoseMsg1, PoseMsg2}

Wrenches == {Wrench1}

\* Arguments of move_cp: a PoseStamped, a Pose and a Frame.
Targets == {PoseMsg2, PoseMsg1.pose,
            Frame(RotationQuaternion(0, 0, 1, 0), Vector(3, 0, 1))}

\* Inputs of the calibration specification.
CalibInputs ==
    [bases |-> {FrameIdentity, FrameB}, tips |-> {FrameIdentity, FrameT},
     scales |-> {1, 2}, poses |-> {PoseMsg2}, twists |-> {TwistMsg1},
     grips |-> {10000}, wrenches |-> Wrenches, targets |-> Targets,
     buttons |-> {TRUE}, tmax |-> 0, skews |-> {0}]

\* Inputs of the button-timing specification.
ButtonInputs ==
    [bases |-> {FrameIdentity}, tips |-> {FrameIdentity},
     scales |-> {1}, poses |-> {PoseMsg1}, twists |-> {TwistMsg1},
     grips |-> {10000}, wrenches |-> Wrenches, targets |-> {PoseMsg1},
     buttons |-> BOOLEAN, tmax |-> MaxTime, skews |-> 0..MaxSkew]

\* Inputs of the pose-snapshot specification.
SnapInputs ==
    [bases |-> {FrameIdentity, FrameB}, tips |-> {FrameIdentity},
     scales |-> {1}, poses |-> PoseMsgs, twists |-> {TwistMsg1},
     grips |-> {10000}, wrenches |-> Wrenches, targets |-> {PoseMsg2},
     buttons |-> BOOLEAN, tmax |-> 0, skews |-> {0}]

-----------------------------------------------------------------------------
(* Specifications: every operation, called one at a time *)

NextOf(in) ==
    \/ \E f \in in.bases : set_base_frame(f)
    \/ \E f \in in.tips : set_tip_frame(f)
    \/ \E s \in in.scales : set_scale(s)
    \/ \E m \in in.poses : pose_cb(m)
    \/ \E g \in in.grips : gripper_cb(g)
    \/ \E m \in in.twists : twist_cb(m)
    \/ \E b \in in.buttons, d \in in.skews :
           now + d <= in.tmax /\ clutch_buttons_cb(b, d)
    \/ \E b \in in.buttons, d \in in.skews :
           now + d <= in.tmax /\ coag_buttons_cb(b, d)
    \/ \E p \in in.targets : move_cp(p)
    \/ \E w \in in.wrenches : move_cf(w)
    \/ test_loop

\* Calibration: base offsets, tip offsets and scales vary; the clock stands
\* still.
Next == NextOf(CalibInputs)

Spec == Init /\ [][Next]_vars

\* Button timing: the clock advances, between callbacks and between the two
\* clock reads of one callback.
NextButtons ==
    \/ NextOf(ButtonInputs)
    \/ Tick(ButtonInputs.tmax)

SpecButtons == Init /\ [][NextButtons]_vars

\* Pose snapshot: two raw poses, both button values; the clock stands still.
NextSnap == NextOf(SnapInputs)

SpecSnap == Init /\ [][NextSnap]_vars

-----------------------------------------------------------------------------
(* The callbacks statement by statement.  No lock guards the device record:
   a thread may be preempted between any two reads or writes of a field.    *)

Goto(t, label) == pc' = [pc EXCEPT ![t] = label]

Keep(t, locals) == loc' = [loc EXCEPT ![t] = locals]

\* Line 100.
set_base_frame_l100(frame) ==
    /\ pc["main"] = "idle"
    /\ _T_baseoffset' = frame
    /\ Goto("main", "l101")
    /\ UNCHANGED << _active, _scale, pose, twist, _T_baseoffset_inverse,
                    _T_tipoffset, clutch_button_pressed, coag_button_pressed,
                    gripper_angle, switch_slave, _button_msg_time, cur_pos_msg,
                    pre_coag_pose_msg, published, now, loc, hist >>

\* Line 101.
set_base_frame_l101 ==
    /\ pc["main"] = "l101"
    /\ _T_baseoffset_inverse' = FrameInverse(_T_baseoffset)
    /\ Goto("main", "idle")
    /\ UNCHANGED << _active, _scale, pose, twist, _T_baseoffset, _T_tipoffset,
                    clutch_button_pressed, coag_button_pressed, gripper_angle,
                    switch_slave, _button_msg_time, cur_pos_msg,
                    pre_coag_pose_msg, published, now, loc, hist >>

\* Line 115.
pose_cb_l115(msg) ==
    /\ pc["pose"] = "idle"
    /\ cur_pos_msg' = msg
    /\ Goto("pose", "l116")
    /\ Keep("pose", [type |-> "pose_cb", msg |-> msg])
    /\ UNCHANGED << _active, _scale, pose, twist, _T_baseoffset,
                    _T_baseoffset_inverse, _T_tipoffset, clutch_button_pressed,
                    coag_button_pressed, gripper_angle, switch_slave,
                    _button_msg_time, pre_coag_pose_msg, published, now, hist >>

\* Line 116.
pose_cb_l116 ==
    /\ pc["pose"] = "l116"
    /\ Goto("pose", IF pre_coag_pose_msg = None THEN "l117" ELSE "l119")
    /\ UNCHANGED << stored, published, now, loc, hist >>

\* Line 117.
pose_cb_l117 ==
    /\ pc["pose"] = "l117"
    /\ pre_coag_pose_msg' = cur_pos_msg
    /\ Goto("pose", "l119")
    /\ UNCHANGED << _active, _scale, pose, twist, _T_baseoffset,
                    _T_baseoffset_inverse, _T_tipoffset, clutch_button_pressed,
                    coag_button_pressed, gripper_angle, switch_slave,
                    _button_msg_time, cur_pos_msg, published, now, loc, hist >>

\* Lines 118-120: reads _scale, _T_baseoffset_inverse and _T_tipoffset,
\* writes pose.
pose_cb_l119 ==
    /\ pc["pose"] = "l119"
    /\ pose' = CorrectedPose(loc["pose"].msg, _scale, _T_baseoffset_inverse,
                             _T_tipoffset)
    /\ Goto("pose", "l122")
    /\ UNCHANGED << _active, _scale, twist, _T_baseoffset,
                    _T_baseoffset_inverse, _T_tipoffset, clutch_button_pressed,
                    coag_button_pressed, gripper_angle, switch_slave,
                    _button_msg_time, cur_pos_msg, pre_coag_pose_msg,
                    published, now, loc, hist >>

\* Line 122.
pose_cb_l122 ==
    /\ pc["pose"] = "l122"
    /\ _active' = TRUE
    /\ h_firstPose' =
           IF h_firstPose = None
           THEN [type |-> "First", msg |-> loc["pose"].msg,
                 coag_before |-> coag_button_pressed]
           ELSE h_firstPose
    /\ Goto("pose", "idle")
    /\ Keep("pose", None)
    /\ UNCHANGED << _scale, pose, twist, _T_baseoffset, _T_baseoffset_inverse,
                    _T_tipoffset, clutch_button_pressed, coag_button_pressed,
                    gripper_angle, switch_slave, _button_msg_time, cur_pos_msg,
                    pre_coag_pose_msg, published, now, buttonHist >>

\* Lines 147-149 (a release ends the callback).
clutch_buttons_cb_l147(pressed) ==
    /\ pc["clutch"] = "idle"
    /\ clutch_button_pressed' = pressed
    /\ Goto("clutch", IF pressed THEN "l150" ELSE "idle")
    /\ UNCHANGED << _active, _scale, pose, twist, _T_baseoffset,
                    _T_baseoffset_inverse, _T_tipoffset, coag_button_pressed,
                    gripper_angle, switch_slave, _button_msg_time, cur_pos_msg,
                    pre_coag_pose_msg, published, now, loc, hist >>

\* Line 157.
coag_buttons_cb_l157(pressed) ==
    /\ pc["coag"] = "idle"
    /\ coag_button_pressed' = pressed
    /\ Goto("coag", "l158")
    /\ Keep("coag", [type |-> "button_cb", pressed |-> pressed])
    /\ UNCHANGED << _active, _scale, pose, twist, _T_baseoffset,
                    _T_baseoffset_inverse, _T_tipoffset, clutch_button_pressed,
                    gripper_angle, switch_slave, _button_msg_time, cur_pos_msg,
                    pre_coag_pose_msg, published, now, hist >>

\* Line 158, right-hand side: reads cur_pos_msg.
coag_buttons_cb_l158 ==
    /\ pc["coag"] = "l158"
    /\ Goto("coag", "l158b")
    /\ Keep("coag", [type |-> "button_cb", pressed |-> loc["coag"].pressed,
                     value |-> cur_pos_msg])
    /\ UNCHANGED << stored, published, now, hist >>

\* Line 158, store, and line 159 (a release ends the callback).
coag_buttons_cb_l158b ==
    /\ pc["coag"] = "l158b"
    /\ pre_coag_pose_msg' = loc["coag"].value
    /\ Keep("coag", None)
    /\ Goto("coag", IF loc["coag"].pressed THEN "l150" ELSE "idle")
    /\ UNCHANGED << _active, _scale, pose, twist, _T_baseoffset,
                    _T_baseoffset_inverse, _T_tipoffset, clutch_button_pressed,
                    coag_button_pressed, gripper_angle, switch_slave,
                    _button_msg_time, cur_pos_msg, published, now, hist >>

\* Lines 150-153 / 160-163: reads the clock and _button_msg_time, sets
\* switch_slave.
buttons_cb_l150(t) ==
    /\ pc[t] = "l150"
    /\ switch_slave' =
           IF WithinWindow(now, _button_msg_time) THEN TRUE ELSE switch_slave
    /\ Goto(t, "l154")
    /\ UNCHANGED << _active, _scale, pose, twist, _T_baseoffset,
                    _T_baseoffset_inverse, _T_tipoffset, clutch_button_pressed,
                    coag_button_pressed, gripper_angle, _button_msg_time,
                    cur_pos_msg, pre_coag_pose_msg, published, now, loc, hist >>

\* Line 154 / 164: reads the clock again.
buttons_cb_l154(t) ==
    /\ pc[t] = "l154"
    /\ _button_msg_time' = now
    /\ Goto(t, "idle")
    /\ UNCHANGED << _active, _scale, pose, twist, _T_baseoffset,
                    _T_baseoffset_inverse, _T_tipoffset, clutch_button_pressed,
                    coag_button_pressed, gripper_angle, switch_slave,
                    cur_pos_msg, pre_coag_pose_msg, published, now, loc, hist >>

\* Line 202 of test(): reads coag_button_pressed; lines 203-206 when pressed.
test_loop_l202 ==
    /\ pc["main"] = "idle"
    /\ IF coag_button_pressed
       THEN move_cf(Wrench(Vector(0, 0, 0), Vector(0, 0, 0)))
       ELSE /\ Goto("main", "l208")
            /\ UNCHANGED << stored, published, now, loc, hist >>

\* test_loop_l208 without the test of is_active().
test_loop_l208_always ==
    /\ pc["main"] = "l208"
    /\ Goto("main", "l209")
    /\ UNCHANGED << stored, published, now, loc, hist >>

\* Line 208: reads _active.
test_loop_l208 ==
    /\ pc["main"] = "l208"
    /\ Goto("main", IF is_active THEN "l209" ELSE "idle")
    /\ UNCHANGED << stored, published, now, loc, hist >>

\* Line 209: reads pre_coag_pose_msg and publishes it.
test_loop_l209 ==
    /\ pc["main"] = "l209"
    /\ published' = [type |-> "Published", topic |-> "set_position_cartesian",
                     msg |-> PoseMsgOf(pre_coag_pose_msg)]
    /\ Goto("main", "idle")
    /\ UNCHANGED << stored, now, loc, hist >>

\* Inputs of the interleaving specification: the twist, the gripper position
\* and the wrench are the ones that leave their field at its initial value,
\* and the clock stands still, so that the interleavings are what is explored.
\* The pose a caller commands is not the pose the device reports, so that a
\* published pose tells the loop of test() from a direct call of move_cp.
ConcInputs ==
    [bases |-> {FrameIdentity, FrameB}, tips |-> {FrameIdentity},
     scales |-> {1}, poses |-> {PoseMsg1},
     twists |-> {<< Vector(0, 0, 0), Vector(0, 0, 0) >>},
     grips |-> {5625}, wrenches |-> {Wrench(Vector(0, 0, 0), Vector(0, 0, 0))},
     targets |-> {PoseMsg2}, buttons |-> BOOLEAN]

NextConc ==
    \/ \E f \in ConcInputs.bases : set_base_frame_l100(f)
    \/ set_base_frame_l101
    \/ \E f \in ConcInputs.tips : pc["main"] = "idle" /\ set_tip_frame(f)
    \/ \E s \in ConcInputs.scales : pc["main"] = "idle" /\ set_scale(s)
    \/ \E m \in ConcInputs.poses : pose_cb_l115(m)
    \/ pose_cb_l116
    \/ pose_cb_l117
    \/ pose_cb_l119
    \/ pose_cb_l122
    \/ \E g \in ConcInputs.grips : gripper_cb(g)
    \/ \E m \in ConcInputs.twists : twist_cb(m)
    \/ \E b \in ConcInputs.buttons : clutch_buttons_cb_l147(b)
    \/ \E b \in ConcInputs.buttons : coag_buttons_cb_l157(b)
    \/ coag_buttons_cb_l158
    \/ coag_buttons_cb_l158b
    \/ \E t \in {"clutch", "coag"} : buttons_cb_l150(t)
    \/ \E t \in {"clutch", "coag"} : buttons_cb_l154(t)
    \/ \E p \in ConcInputs.targets : pc["main"] = "idle" /\ move_cp(p)
    \/ \E w \in ConcInputs.wrenches : pc["main"] = "idle" /\ move_cf(w)
    \/ test_loop_l202
    \/ test_loop_l208
    \/ test_loop_l209

SpecConc == Init /\ [][NextConc]_vars

-----------------------------------------------------------------------------
(* Claims *)

\* A button message with value b is handled (clutch or coagulation).
ButtonEvent(b) ==
    \E d \in 0..MaxSkew : clutch_buttons_cb(b, d) \/ coag_buttons_cb(b, d)

\* C1, as stated: of two button events handled one after the other at times
\* t0 and t1, with switch_slave false before the second, the second sets
\* switch_slave exactly when t1 - t0 is less than the debounce window.
C1_AnyTwoEvents ==
    [][\A b \in BOOLEAN :
           (h_prevEv # None /\ ~switch_slave /\ ButtonEvent(b))
               => (switch_slave' <=> now - h_prevEv.t < _switch_slave_duration)]_vars

\* C1, amended: of two press events handled one after the other (releases may
\* lie between), with switch_slave false before the second, the second sets
\* switch_slave exactly when the time it reads for its comparison is less than
\* the debounce window after the time the first stored.
C1_TwoPresses ==
    [][(h_lastPress # None /\ ~switch_slave /\ ButtonEvent(TRUE))
           => (switch_slave' <=>
                   now - h_lastPress.stored < _switch_slave_duration)]_vars

\* Two presses have been handled, the second a full window after the first,
\* and switch_slave is still false.
C1_Witness ==
    /\ h_presses = 2
    /\ h_prevEv.pressed
    /\ ~switch_slave

\* C2: switch_slave is true only when at least two press events have been
\* handled; the first press after construction never sets it.
C2_OnlyOnSecondPress == switch_slave => h_presses >= 2

\* C3: is_active() is false until the first pose message has been handled, true
\* from then on, and no operation returns it to false.
C3_ActiveMonotone ==
    [][/\ is_active <=> h_firstPose # None
       /\ is_active => is_active']_vars

\* The device is active after a pose message followed by a base-frame change,
\* a clutch press, a coagulation release and a command.
C3_Witness ==
    /\ is_active
    /\ _T_baseoffset = FrameB
    /\ clutch_button_pressed
    /\ h_prevEv # None
    /\ h_prevEv.btn = "coag"
    /\ ~h_prevEv.pressed
    /\ published # None

\* C4: the step that handles the first pose message ever leaves
\* pre_coag_pose_msg equal to that message, whatever came before it.
C4_Bootstrap ==
    [][\A m \in PoseMsgs :
           (h_firstPose = None /\ pose_cb(m)) => pre_coag_pose_msg' = m]_vars

\* The first pose message was handled while a coagulation press was latched,
\* and pre_coag_pose_msg is that message.
C4_Witness ==
    /\ h_firstPose # None
    /\ h_firstPose.coag_before
    /\ cur_pos_msg = h_firstPose.msg
    /\ pre_coag_pose_msg = h_firstPose.msg

\* C5: every coagulation-button message, pressed or released, leaves
\* pre_coag_pose_msg equal to the most recent raw pose message.
C5_CoagRefresh ==
    [][(\E b \in BOOLEAN, d \in 0..MaxSkew : coag_buttons_cb(b, d))
           => pre_coag_pose_msg' = cur_pos_msg']_vars

\* The last button message was a coagulation release, and pre_coag_pose_msg is
\* the latest pose message, not the first one.
C5_Witness ==
    /\ h_prevEv # None
    /\ h_prevEv.btn = "coag"
    /\ ~h_prevEv.pressed
    /\ h_firstPose # None
    /\ h_firstPose.msg = PoseMsg1
    /\ cur_pos_msg = PoseMsg2
    /\ pre_coag_pose_msg = PoseMsg2

\* C6: in every state, also those another thread observes while
\* set_base_frame runs, the cached inverse composed with the base offset is
\* the identity transform.
C6_InverseIsInverse ==
    FrameMul(_T_baseoffset_inverse, _T_baseoffset) = FrameIdentity

\* The raw pose with its translation multiplied by s, rotation unchanged.
ScaledRaw(m, s) ==
    Frame(RotationQuaternion(m.pose.orientation[1], m.pose.orientation[2],
                             m.pose.orientation[3], m.pose.orientation[4]),
          << s * m.pose.position[1], s * m.pose.position[2],
             s * m.pose.position[3] >>)

\* Identity offsets and scale 2 take raw position (1,0,0) to (2,0,0).
Scenario_Scale2 ==
    CorrectedPose(PoseMsg1, 2, FrameInverse(FrameIdentity), FrameIdentity).p
        = << 2, 0, 0 >>

\* C7: the pose stored by pose_cb(P) is inverse(B) * P' * T, P' being P with
\* its translation scaled; identity offsets and scale 2 take position (1,0,0)
\* to (2,0,0).
C7_CorrectPose ==
    [][/\ Scenario_Scale2
       /\ \A m \in PoseMsgs :
              pose_cb(m) =>
                  pose' = FrameMul(FrameMul(FrameInverse(_T_baseoffset),
                                            ScaledRaw(m, _scale)),
                                   _T_tipoffset)]_vars

\* A pose was stored under a non-identity base offset, a non-identity tip
\* offset and scale 2.
C7_Witness ==
    /\ is_active
    /\ _T_baseoffset = FrameB
    /\ _T_tipoffset = FrameT
    /\ _scale = 2
    /\ pose = FrameMul(FrameMul(FrameInverse(FrameB), ScaledRaw(PoseMsg2, 2)),
                       FrameT)

\* The pose message msg describes the same pose as the argument p of move_cp.
SamePose(msg, p) ==
    IF p.type = "Frame"
    THEN /\ msg.position = p.p
         /\ RotationQuaternion(msg.orientation[1], msg.orientation[2],
                               msg.orientation[3], msg.orientation[4]) = p.M
    ELSE IF p.type = "PoseStamped" THEN msg = p.pose
    ELSE msg = p

\* C8: move_cf(W) publishes inverse(baseOffset) * W, move_cp(P) publishes P
\* itself, and neither changes a field of the device record.
C8_Commands ==
    [][/\ \A w \in Wrenches :
              move_cf(w) =>
                  /\ published'.topic = "set_wrench_body"
                  /\ published'.msg.force =
                         FrameMulWrench(FrameInverse(_T_baseoffset), w).force
                  /\ published'.msg.torque =
                         FrameMulWrench(FrameInverse(_T_baseoffset), w).torque
                  /\ UNCHANGED stored
       /\ \A p \in Targets :
              move_cp(p) =>
                  /\ published'.topic = "set_position_cartesian"
                  /\ SamePose(published'.msg, p)
                  /\ UNCHANGED stored]_vars

\* A wrench was published under a non-identity base offset, on an active
\* device with a press latched.
C8_Witness ==
    /\ published # None
    /\ published.topic = "set_wrench_body"
    /\ published.msg.force = MatVec(RotInverse(FrameB.M), Wrench1.force)
    /\ published.msg.force # Wrench1.force
    /\ _T_baseoffset = FrameB
    /\ is_active
    /\ switch_slave

\* Holds after every sequence of whole callbacks: an active device has
\* recorded a pre-coagulation pose.
AfterWholeCallbacks == is_active => pre_coag_pose_msg # None

\* C9: callbacks take effect atomically, so when no callback is running the
\* state is one that whole callbacks in some order produce.
C9_CallbacksAtomic == (pc = Idle) => AfterWholeCallbacks

\* C10: once switch_slave is true it stays true.
C10_NeverCleared == [][switch_slave => switch_slave']_vars

\* switch_slave is true after two presses, a release, and a full window
\* without a press.
C10_Witness ==
    /\ switch_slave
    /\ h_presses = 2
    /\ h_prevEv # None
    /\ ~h_prevEv.pressed
    /\ now - _button_msg_time >= _switch_slave_duration
    /\ is_active
    /\ published # None

\* The last button event handled was a press of button btn.
LastEventPress(btn) ==
    /\ h_prevEv # None
    /\ h_prevEv.pressed
    /\ h_prevEv.btn = btn

\* C11: a press of one button handled right after a press of the other, less
\* than the debounce window after the time that press stored, sets
\* switch_slave, as it does after a press of the same button; and a press of
\* either button stores its time in the one _button_msg_time both compare with.
C11_SharedClock ==
    [][\A d \in 0..MaxSkew :
           /\ (/\ clutch_buttons_cb(TRUE, d)
               /\ LastEventPress("coag") \/ LastEventPress("clutch")
               /\ now - h_lastPress.stored < _switch_slave_duration)
                  => switch_slave'
           /\ (/\ coag_buttons_cb(TRUE, d)
               /\ LastEventPress("clutch") \/ LastEventPress("coag")
               /\ now - h_lastPress.stored < _switch_slave_duration)
                  => switch_slave'
           /\ (clutch_buttons_cb(TRUE, d) \/ coag_buttons_cb(TRUE, d))
                  => (_button_msg_time' = h_lastPress'.stored
                      /\ _button_msg_time' = now')]_vars

\* A coagulation press has followed a clutch press a full window after
\* construction, both pedals are down, and switch_slave is set.
C11_Witness ==
    /\ LastEventPress("coag")
    /\ clutch_button_pressed
    /\ coag_button_pressed
    /\ h_presses = 2
    /\ h_prevEv.t >= _switch_slave_duration
    /\ _button_msg_time = h_lastPress.stored
    /\ switch_slave

\* C12: a release message, clutch or coagulation, leaves _button_msg_time and
\* switch_slave unchanged; a press always stores the time of its handling in
\* _button_msg_time, whether or not its test succeeded; so a press that follows
\* a press and a release less than the window after the earlier press sets
\* switch_slave.
C12_ReleaseIgnored ==
    [][\A d \in 0..MaxSkew :
           /\ ButtonEvent(FALSE) => UNCHANGED << _button_msg_time, switch_slave >>
           /\ (clutch_buttons_cb(TRUE, d) \/ coag_buttons_cb(TRUE, d))
                  => _button_msg_time' = now + d
           /\ (/\ clutch_buttons_cb(TRUE, d) \/ coag_buttons_cb(TRUE, d)
               /\ h_prevEv # None
               /\ ~h_prevEv.pressed
               /\ h_lastPress # None
               /\ now - h_lastPress.stored < _switch_slave_duration)
                  => switch_slave']_vars

\* The last press did not pass its test (switch_slave is still false) and
\* stored its time all the same; a release was handled after it.
C12_Witness ==
    /\ h_presses = 2
    /\ ~switch_slave
    /\ h_prevEv # None
    /\ ~h_prevEv.pressed
    /\ _button_msg_time = h_lastPress.stored
    /\ h_lastPress.stored > h_lastPress.compared
    /\ h_prevEv.t >= _button_msg_time

\* C13: each flag is the value of the latest message of its own button, false
\* when there was none; a clutch message leaves coag_button_pressed alone, a
\* coagulation message leaves clutch_button_pressed alone, and nothing else
\* writes either flag.
C13_Latched ==
    [][/\ h_prevEv = None => (~clutch_button_pressed /\ ~coag_button_pressed)
       /\ \A b \in BOOLEAN, d \in 0..MaxSkew :
              /\ clutch_buttons_cb(b, d)
                     => (clutch_button_pressed' = b
                         /\ UNCHANGED coag_button_pressed)
              /\ coag_buttons_cb(b, d)
                     => (coag_button_pressed' = b
                         /\ UNCHANGED clutch_button_pressed)
       /\ h_prevEv' # None
              => IF h_prevEv'.btn = "clutch"
                 THEN clutch_button_pressed' = h_prevEv'.pressed
                 ELSE coag_button_pressed' = h_prevEv'.pressed
       /\ (\A b \in BOOLEAN, d \in 0..MaxSkew : ~clutch_buttons_cb(b, d))
              => UNCHANGED clutch_button_pressed
       /\ (\A b \in BOOLEAN, d \in 0..MaxSkew : ~coag_buttons_cb(b, d))
              => UNCHANGED coag_button_pressed]_vars

\* The clutch was pressed and released while the coagulation pedal stays down,
\* with pose messages and commands handled since.
C13_Witness ==
    /\ h_prevEv # None
    /\ h_prevEv.btn = "clutch"
    /\ ~h_prevEv.pressed
    /\ ~clutch_button_pressed
    /\ coag_button_pressed
    /\ switch_slave
    /\ is_active
    /\ published # None

\* The raw twist of a twist message.
RawTwist(msg) == Twist(msg[1], msg[2])

\* C14: the twist stored by twist_cb is inverse(baseOffset) * rawTwist; the
\* tip offset and the scale have no part in it, so the stored twist is always
\* the initial one or the raw twist seen through one of the base offsets.
C14_CorrectTwist ==
    [][/\ \A m \in CalibInputs.twists :
              twist_cb(m) =>
                  twist' = FrameMulTwist(FrameInverse(_T_baseoffset), RawTwist(m))
       /\ twist' \in
              {Twist(Vector(0, 0, 0), Vector(0, 0, 0))}
                  \cup {FrameMulTwist(FrameInverse(b), RawTwist(m)) :
                            b \in CalibInputs.bases, m \in CalibInputs.twists}]_vars

\* A twist was stored under a base offset that turns and shifts it, with a
\* non-identity tip offset and scale 2 in force.
C14_Witness ==
    /\ twist = FrameMulTwist(FrameInverse(FrameB), RawTwist(TwistMsg1))
    /\ twist # RawTwist(TwistMsg1)
    /\ _T_baseoffset = FrameB
    /\ _T_tipoffset = FrameT
    /\ _scale = 2

\* The fields that are not calibration.
notCalibration == << _active, pose, twist, clutch_button_pressed,
                     coag_button_pressed, gripper_angle, switch_slave,
                     _button_msg_time, cur_pos_msg, pre_coag_pose_msg >>

\* C18: set_base_frame, set_tip_frame and set_scale change the calibration
\* fields only; pose, twist, gripper angle, button flags, active flag,
\* switch_slave and pre_coag_pose_msg keep their values.
C18_SettersFrame ==
    [][/\ \A f \in CalibInputs.bases :
              set_base_frame(f) =>
                  UNCHANGED << notCalibration, _T_tipoffset, _scale >>
       /\ \A f \in CalibInputs.tips :
              set_tip_frame(f) =>
                  UNCHANGED << notCalibration, _T_baseoffset,
                               _T_baseoffset_inverse, _scale >>
       /\ \A k \in CalibInputs.scales :
              set_scale(k) =>
                  UNCHANGED << notCalibration, _T_baseoffset,
                               _T_baseoffset_inverse, _T_tipoffset >>]_vars

\* The stored pose and twist are still the ones computed under the identity
\* calibration, after base offset, tip offset and scale were all changed.
C18_Witness ==
    /\ is_active
    /\ pose = CorrectedPose(PoseMsg2, 1, FrameIdentity, FrameIdentity)
    /\ twist = RawTwist(TwistMsg1)
    /\ _T_baseoffset = FrameB
    /\ _T_tipoffset = FrameT
    /\ _scale = 2
    /\ pose # CorrectedPose(PoseMsg2, _scale, _T_baseoffset_inverse, _T_tipoffset)
    /\ twist # FrameMulTwist(_T_baseoffset_inverse, RawTwist(TwistMsg1))

\* What move_cf publishes for the zero wrench.
ZeroWrenchCommand ==
    [type |-> "Published", topic |-> "set_wrench_body",
     msg |-> [type |-> "WrenchMsg", force |-> Vector(0, 0, 0),
              torque |-> Vector(0, 0, 0)]]

\* C15: an iteration of the loop of test() that reads coag_button_pressed
\* true sends the zero wrench through move_cf; one that reads it false sends
\* pre_coag_pose_msg through move_cp when is_active() is true and nothing when
\* it is false; the loop sends no pose before the first pose message has been
\* handled.
C15_ControlLoop ==
    [][/\ (test_loop_l202 /\ coag_button_pressed)
              => (published' = ZeroWrenchCommand /\ pc'["main"] = "idle")
       /\ (test_loop_l202 /\ ~coag_button_pressed)
              => (UNCHANGED published /\ pc'["main"] = "l208")
       /\ (test_loop_l208 /\ ~is_active)
              => (UNCHANGED published /\ pc'["main"] = "idle")
       /\ (test_loop_l208 /\ is_active)
              => (UNCHANGED published /\ pc'["main"] = "l209")
       /\ test_loop_l209
              => /\ is_active
                 /\ h_firstPose # None
                 /\ cur_pos_msg # None
                 /\ published'.topic = "set_position_cartesian"
                 /\ published'.msg = PoseMsgOf(pre_coag_pose_msg)]_vars

\* The loop has sent the pose the device reported, with the coagulation pedal
\* up, and is between two iterations.
C15_Witness ==
    /\ pc["main"] = "idle"
    /\ published # None
    /\ published.topic = "set_position_cartesian"
    /\ published.msg = PoseMsg1.pose
    /\ pre_coag_pose_msg = PoseMsg1
    /\ is_active
    /\ ~coag_button_pressed

\* C16: under every interleaving of pose_cb and coag_buttons_cb, the read and
\* the write of line 158 being separate steps, an active device has a received
\* pose message in both pre_coag_pose_msg and cur_pos_msg, and the loop of
\* test() never hands None to the publisher.
C16_ActiveHasPoses ==
    /\ is_active => (pre_coag_pose_msg # None /\ cur_pos_msg # None)
    /\ published # None => published.msg # None

\* A coagulation-button message is handled.
CoagEvent == \E b \in BOOLEAN, d \in 0..MaxSkew : coag_buttons_cb(b, d)

\* C17: once the first pose message has been handled, every step that is not
\* the coagulation-button handler leaves pre_coag_pose_msg unchanged: later
\* pose messages, twist, gripper and clutch messages, the setters and the
\* commands.
C17_OnlyCoagChanges ==
    [][/\ (h_firstPose # None /\ ~CoagEvent) => UNCHANGED pre_coag_pose_msg
       /\ \A m \in PoseMsgs :
              (h_firstPose # None /\ pose_cb(m))
                  => (UNCHANGED pre_coag_pose_msg /\ cur_pos_msg' = m)]_vars

\* pre_coag_pose_msg is the pose a coagulation message captured (it is not
\* the first pose message), while a later pose message has replaced
\* cur_pos_msg and pose.
C17_Witness ==
    /\ h_firstPose # None
    /\ h_firstPose.msg = PoseMsg2
    /\ pre_coag_pose_msg = PoseMsg1
    /\ cur_pos_msg = PoseMsg2
    /\ pose = CorrectedPose(PoseMsg2, _scale, _T_baseoffset_inverse,
                            _T_tipoffset)
    /\ h_prevEv # None
    /\ h_prevEv.btn = "clutch"
    /\ published # None

\* The clock never runs backwards.
ClockMonotone == now' >= now

\* _button_msg_time never decreases, and is the construction time until a
\* press is handled and from then on the time the latest press stored.
StoredTimeOfLastPress ==
    /\ _button_msg_time' >= _button_msg_time
    /\ _button_msg_time' =
           IF h_lastPress' = None THEN 0 ELSE h_lastPress'.stored

\* C19: with a non-decreasing clock, _button_msg_time never decreases and is
\* the construction time or the time of the latest press handled, and the time
\* a press stores is the time it used in its elapsed-time comparison.
C19_StoredIsCompared ==
    [][ClockMonotone =>
           /\ StoredTimeOfLastPress
           /\ h_lastPress' # None
                  => h_lastPress'.stored = h_lastPress'.compared]_vars

====
